---- MODULE Spec2Model ----
(***************************************************************************)
(* Model of openhands/events/action/vscode.py: the VSCodeOpenFileAction    *)
(* dataclass, its generated constructor, the message property and the      *)
(* __str__ method.                                                         *)
(*                                                                         *)
(* A Python str is a sequence of one-character strings, so that            *)
(* concatenation and the literal texts are computed, not assumed.          *)
(***************************************************************************)
EXTENDS Naturals, Sequences, FiniteSets, TLC

VARIABLES
    heap,       \* the instances that exist: identity -> instance attributes
    lastInit,   \* the latest constructor call: its keyword arguments and what it raised
    returned    \* per instance, the values message and __str__ have returned so far

vars == <<heap, lastInit, returned>>

-----------------------------------------------------------------------------
(* Bounds and input domains *)

\* longest file_path / thought drawn as input
MaxLen == 1

\* the character the bounded inputs are built from
Char == {"a"}

StringsUpTo(n) == UNION {[1..k -> Char] : k \in 0..n}

\* a file_path with a path-traversal segment, and a text with a newline inside
TraversalPath == <<".", ".", "/", "a">>
TwoLines == <<"a", "\n", "b">>

\* the identities of the instances a run constructs
Ids == {1, 2}

-----------------------------------------------------------------------------
(* The class body, lines 12-16 *)

\* ActionType.VSCODE_OPEN_FILE (imported, line 4): the default of the action field
VSCODE_OPEN_FILE == "ActionType.VSCODE_OPEN_FILE"

\* Python's None
None == "None"

\* thought: str = ''
EmptyStr == << >>

\* variant: the override left out, the base class's False showing through
runnableNotOverridden == FALSE

\* runnable: ClassVar[bool] = True -- an attribute of the class, not a field
runnable == TRUE

\* the dataclass fields, in declaration order: the parameters of the generated __init__
Fields == {"file_path", "thought", "action", "security_risk"}

\* fields declared without a default
Required == {"file_path"}

\* variant: the action default taken over from another action class
DefaultsOtherAction ==
    [thought |-> EmptyStr, action |-> "ActionType.RUN", security_risk |-> None]

\* variant: security_risk defaulting to a member of the enumeration
DefaultsUnknownRisk ==
    [thought |-> EmptyStr, action |-> VSCODE_OPEN_FILE,
     security_risk |-> "ActionSecurityRisk.UNKNOWN"]

\* the defaults of the other fields
Defaults == [thought |-> EmptyStr, action |-> VSCODE_OPEN_FILE, security_risk |-> None]

\* the names a caller may try to pass: the fields and the class variable
ArgNames == Fields \cup {"runnable"}

\* values a caller passes for each argument
FilePathArgs == StringsUpTo(MaxLen) \cup {TraversalPath, TwoLines}
ThoughtArgs == StringsUpTo(MaxLen) \cup {TwoLines}
ActionArgs == {"ActionType.RUN"}
SecurityRiskArgs == {None, "ActionSecurityRisk.HIGH"}

NoError == "no exception"
MissingArgument == "TypeError: missing required argument 'file_path'"
UnexpectedArgument == "TypeError: unexpected keyword argument 'runnable'"

\* the sets of names the modelled callers pass: any set of fields along with
\* file_path; at most one name when file_path is left out; runnable alone or
\* with file_path
KeySets ==
    {ks \in SUBSET ArgNames :
        /\ "runnable" \in ks => ks \subseteq {"file_path", "runnable"}
        /\ "file_path" \notin ks => Cardinality(ks) <= 1}

\* a constructor call's keyword arguments: a dict over the names in keys
MakeKwargs(keys, p, t, a, r) ==
    [k \in keys |-> CASE k = "file_path" -> p
                      [] k = "thought" -> t
                      [] k = "action" -> a
                      [] k = "security_risk" -> r
                      [] OTHER -> TRUE]

\* the generated __init__ binds its arguments: a name that is no parameter is
\* rejected, then a parameter without default that was not passed
BindArguments(kw) ==
    IF DOMAIN kw \ Fields # {} THEN UnexpectedArgument
    ELSE IF Required \ DOMAIN kw # {} THEN MissingArgument
    ELSE NoError

\* variant: a path-traversal prefix stripped from file_path on the way in
NewInstanceNormalized(kw) ==
    [f \in Fields |->
        IF f \in DOMAIN kw
        THEN (IF f = "file_path" /\ kw[f] = TraversalPath THEN <<"a">> ELSE kw[f])
        ELSE Defaults[f]]

\* the generated __init__ assigns each field its argument, or its default
NewInstance(kw) ==
    [f \in Fields |-> IF f \in DOMAIN kw THEN kw[f] ELSE Defaults[f]]

\* variant: file_path given a default of '' like thought
VSCodeOpenFileActionDefaulting(kw) ==
    IF DOMAIN kw \ Fields # {}
    THEN [raised |-> UnexpectedArgument, created |-> {}]
    ELSE [raised |-> NoError,
          created |-> {[f \in Fields |->
                          IF f \in DOMAIN kw THEN kw[f]
                          ELSE IF f = "file_path" THEN EmptyStr
                          ELSE Defaults[f]]}]

\* the call VSCodeOpenFileAction(**kw): what it raises, and the instance it
\* returns (none when it raises)
VSCodeOpenFileAction(kw) ==
    IF BindArguments(kw) = NoError
    THEN [raised |-> NoError, created |-> {NewInstance(kw)}]
    ELSE [raised |-> BindArguments(kw), created |-> {}]

\* attribute lookup of runnable on an instance: the instance has no such
\* attribute of its own, so the class attribute is found
GetRunnable(self) ==
    IF "runnable" \in DOMAIN self THEN self["runnable"] ELSE runnable

-----------------------------------------------------------------------------
(* The string literals of message and __str__ *)

MESSAGE_PREFIX == <<"O", "p", "e", "n", "i", "n", "g", " ", "f", "i", "l", "e", " ", "i", "n", " ", "V", "S", "C", "o", "d", "e", ":", " ">>
HEADER == <<"*", "*", "V", "S", "C", "o", "d", "e", "O", "p", "e", "n", "F", "i", "l", "e", "A", "c", "t", "i", "o", "n", "*", "*", "\n">>
THOUGHT_LABEL == <<"T", "H", "O", "U", "G", "H", "T", ":", " ">>
FILE_PATH_LABEL == <<"F", "I", "L", "E", "_", "P", "A", "T", "H", ":", " ">>
NEWLINE == <<"\n">>

\* variant: the test of thought always taken
TruthyAlways(s) == TRUE

\* truth value of a str: non-empty
Truthy(s) == Len(s) > 0

\* variant: message built from thought
messageOfThought(self) == MESSAGE_PREFIX \o self.thought

\* @property message
message(self) == MESSAGE_PREFIX \o self.file_path

\* variant: the last line ended with a newline like the others
StrTrailingNewline(self) ==
    HEADER
    \o (IF Len(self.thought) > 0
        THEN THOUGHT_LABEL \o self.thought \o NEWLINE ELSE << >>)
    \o FILE_PATH_LABEL \o self.file_path \o NEWLINE

\* variant: a line for security_risk when it is set
StrWithRisk(self) ==
    HEADER
    \o (IF Len(self.thought) > 0
        THEN THOUGHT_LABEL \o self.thought \o NEWLINE ELSE << >>)
    \o FILE_PATH_LABEL \o self.file_path
    \o (IF self.security_risk # None THEN <<"\n", self.security_risk>> ELSE << >>)

\* __str__
__str__(self) ==
    LET ret0 == HEADER
        ret1 == IF Truthy(self.thought)
                THEN ret0 \o THOUGHT_LABEL \o self.thought \o NEWLINE
                ELSE ret0
    IN  ret1 \o FILE_PATH_LABEL \o self.file_path

-----------------------------------------------------------------------------
(* The state machine *)

NoCall == [id |-> 0, kwargs |-> MakeKwargs({}, EmptyStr, EmptyStr, None, None), raised |-> NoError]

Init ==
    /\ heap = [i \in {} |-> 0]
    /\ lastInit = NoCall
    /\ returned = [i \in Ids |-> [message |-> {}, str |-> {}]]

\* x = VSCodeOpenFileAction(**kw), x being the fresh identity i: an exception
\* reaches the caller and binds nothing
New(i, kw) ==
    /\ i \notin DOMAIN heap
    /\ LET call == VSCodeOpenFileAction(kw) IN
        /\ lastInit' = [id |-> i, kwargs |-> kw, raised |-> call.raised]
        /\ heap' = [j \in DOMAIN heap \cup {k \in {i} : call.created # {}} |->
                        IF j = i THEN CHOOSE o \in call.created : TRUE ELSE heap[j]]
    /\ UNCHANGED returned

\* variant: the prefix written back into file_path
ReadMessageInPlace(i) ==
    /\ i \in DOMAIN heap
    /\ returned' = [returned EXCEPT ![i].message = @ \cup {message(heap[i])}]
    /\ heap' = [heap EXCEPT ![i].file_path = message(heap[i])]
    /\ UNCHANGED lastInit

\* reading heap[i].message
ReadMessage(i) ==
    /\ i \in DOMAIN heap
    /\ returned' = [returned EXCEPT ![i].message = @ \cup {message(heap[i])}]
    /\ UNCHANGED <<heap, lastInit>>

\* variant: thought consumed by the rendering
CallStrClearing(i) ==
    /\ i \in DOMAIN heap
    /\ returned' = [returned EXCEPT ![i].str = @ \cup {__str__(heap[i])}]
    /\ heap' = [heap EXCEPT ![i].thought = EmptyStr]
    /\ UNCHANGED lastInit

\* str(heap[i])
CallStr(i) ==
    /\ i \in DOMAIN heap
    /\ returned' = [returned EXCEPT ![i].str = @ \cup {__str__(heap[i])}]
    /\ UNCHANGED <<heap, lastInit>>

Construct ==
    \E i \in Ids, keys \in KeySets :
        \E p \in IF "file_path" \in keys THEN FilePathArgs ELSE {EmptyStr},
           t \in IF "thought" \in keys THEN ThoughtArgs ELSE {EmptyStr},
           a \in IF "action" \in keys THEN ActionArgs ELSE {None},
           r \in IF "security_risk" \in keys THEN SecurityRiskArgs ELSE {None} :
            New(i, MakeKwargs(keys, p, t, a, r))

Message == \E i \in Ids : ReadMessage(i)

Str == \E i \in Ids : CallStr(i)

Next == Construct \/ Message \/ Str

Spec == Init /\ [][Next]_vars

-----------------------------------------------------------------------------
(* The texts the documentation states, written out independently of the     *)
(* literals above                                                           *)

ExpectedHeadThought == <<"*", "*", "V", "S", "C", "o", "d", "e", "O", "p", "e", "n", "F", "i", "l", "e", "A", "c", "t", "i", "o", "n", "*", "*", "\n", "T", "H", "O", "U", "G", "H", "T", ":", " ">>
ExpectedPathLine == <<"\n", "F", "I", "L", "E", "_", "P", "A", "T", "H", ":", " ">>
ExpectedHeadPath == <<"*", "*", "V", "S", "C", "o", "d", "e", "O", "p", "e", "n", "F", "i", "l", "e", "A", "c", "t", "i", "o", "n", "*", "*", "\n", "F", "I", "L", "E", "_", "P", "A", "T", "H", ":", " ">>
ExpectedMessage == <<"O", "p", "e", "n", "i", "n", "g", " ", "f", "i", "l", "e", " ", "i", "n", " ", "V", "S", "C", "o", "d", "e", ":", " ">>

\* the latest constructor call returned an instance
LastInitOk == lastInit.id \in DOMAIN heap /\ lastInit.raised = NoError

\* the latest constructor call passed the argument k
Passed(k) == k \in DOMAIN lastInit.kwargs

\* the second line of the rendered text s is a THOUGHT line
HasThoughtLine(s) ==
    /\ Len(s) >= Len(ExpectedHeadThought)
    /\ SubSeq(s, 1, Len(ExpectedHeadThought)) = ExpectedHeadThought

\* s is a Python str: a finite sequence of characters
IsStr(s) == s \in Seq(STRING)

-----------------------------------------------------------------------------
(* C1: an instance constructed with file_path = p and a non-empty thought = t
   renders, on every __str__ call, as exactly
   "**VSCodeOpenFileAction**\nTHOUGHT: " + t + "\nFILE_PATH: " + p, with
   nothing after p. *)
C1_StrWithThought ==
    (LastInitOk /\ Passed("thought") /\ lastInit.kwargs.thought # EmptyStr) =>
        \A s \in returned[lastInit.id].str :
            s = ExpectedHeadThought \o lastInit.kwargs.thought
                \o ExpectedPathLine \o lastInit.kwargs.file_path

C1_Witness ==
    /\ LastInitOk /\ Passed("thought")
    /\ lastInit.kwargs.thought = TwoLines
    /\ lastInit.kwargs.file_path = TraversalPath
    /\ returned[lastInit.id].str # {}

(* C2: an instance constructed with a non-empty file_path = p and no thought
   has message "Opening file in VSCode: " + p and renders as
   "**VSCodeOpenFileAction**\nFILE_PATH: " + p; for every instance the THOUGHT
   line is in the rendered text if and only if thought is non-empty. *)
C2_NoThought ==
    /\ (LastInitOk /\ ~Passed("thought") /\ lastInit.kwargs.file_path # EmptyStr) =>
          /\ \A m \in returned[lastInit.id].message :
                m = ExpectedMessage \o lastInit.kwargs.file_path
          /\ \A s \in returned[lastInit.id].str :
                s = ExpectedHeadPath \o lastInit.kwargs.file_path
    /\ \A i \in DOMAIN heap : \A s \in returned[i].str :
          HasThoughtLine(s) <=> heap[i].thought # EmptyStr

C2_Witness ==
    /\ LastInitOk /\ ~Passed("thought")
    /\ lastInit.kwargs.file_path = TwoLines
    /\ returned[lastInit.id].message # {}
    /\ returned[lastInit.id].str # {}
    /\ \E j \in DOMAIN heap : heap[j].thought # EmptyStr /\ returned[j].str # {}

(* C3, as stated: every constructed instance has action equal to
   ActionType.VSCODE_OPEN_FILE whatever the constructor was passed. *)
C3_ActionAlwaysConstant ==
    \A i \in DOMAIN heap : heap[i].action = VSCODE_OPEN_FILE

(* C3, amended: an instance constructed without an action argument has action
   equal to ActionType.VSCODE_OPEN_FILE; action is a defaulted constructor
   parameter and an instance constructed with action = x has action x. *)
C3_ActionDefault ==
    LastInitOk =>
        heap[lastInit.id].action =
            IF Passed("action") THEN lastInit.kwargs.action ELSE VSCODE_OPEN_FILE

C3_Witness ==
    /\ LastInitOk /\ ~Passed("action")
    /\ Passed("thought") /\ Passed("security_risk")
    /\ \E j \in DOMAIN heap : heap[j].action # VSCODE_OPEN_FILE

(* C4: a constructor call that leaves file_path out raises to its caller: with
   only field names passed the error is the missing-argument TypeError; no
   instance comes to exist under the identity, so no file_path is defaulted
   and no message or __str__ call on it ever returns. *)
C4_MissingFilePath ==
    (lastInit.id # 0 /\ ~Passed("file_path")) =>
        /\ lastInit.raised # NoError
        /\ DOMAIN lastInit.kwargs \subseteq Fields => lastInit.raised = MissingArgument
        /\ lastInit.id \notin DOMAIN heap
        /\ returned[lastInit.id].message = {}
        /\ returned[lastInit.id].str = {}

C4_Witness ==
    /\ lastInit.id # 0 /\ ~Passed("file_path") /\ Passed("thought")
    /\ lastInit.raised = MissingArgument
    /\ DOMAIN heap # {}

(* C5: runnable is True on every instance and belongs to the class: no
   instance has a runnable attribute of its own, and a constructor call that
   passes runnable is rejected. *)
C5_RunnableClassLevel ==
    /\ \A i \in DOMAIN heap :
          GetRunnable(heap[i]) = TRUE /\ "runnable" \notin DOMAIN heap[i]
    /\ (lastInit.id # 0 /\ Passed("runnable")) =>
          lastInit.raised = UnexpectedArgument /\ lastInit.id \notin DOMAIN heap

C5_Witness ==
    /\ lastInit.id # 0 /\ Passed("runnable") /\ Passed("file_path")
    /\ \E j \in DOMAIN heap :
          heap[j].thought # EmptyStr /\ heap[j].security_risk # None

(* C6: an instance constructed with only file_path = p has thought '' and
   security_risk None, and file_path equal to p as given. *)
C6_Defaults ==
    (LastInitOk /\ DOMAIN lastInit.kwargs = {"file_path"}) =>
        /\ heap[lastInit.id].thought = EmptyStr
        /\ heap[lastInit.id].security_risk = None
        /\ heap[lastInit.id].file_path = lastInit.kwargs.file_path

C6_Witness ==
    /\ LastInitOk /\ DOMAIN lastInit.kwargs = {"file_path"}
    /\ lastInit.kwargs.file_path = TraversalPath

(* C7: once an instance exists, every step (a constructor call, a message
   read, a __str__ call, on it or on another instance) leaves it in existence
   with file_path, thought, action and security_risk as they were. *)
C7_NeverMutated ==
    [][\A i \in DOMAIN heap : i \in DOMAIN heap' /\ heap'[i] = heap[i]]_vars

C7_Witness ==
    \E i \in DOMAIN heap :
        /\ heap[i].thought # EmptyStr
        /\ heap[i].action # VSCODE_OPEN_FILE
        /\ heap[i].security_risk # None
        /\ returned[i].message # {}
        /\ returned[i].str # {}
        /\ lastInit.id # i /\ LastInitOk

(* C8: every message read and __str__ call returns a str, changes no
   instance, no other call's record and nothing else, and returns what every
   earlier call of the same accessor on the same instance returned, whatever
   calls came in between. *)
C8_PureTotal ==
    [][returned' # returned =>
          /\ heap' = heap
          /\ lastInit' = lastInit
          /\ \A i \in Ids :
                /\ \A s \in returned'[i].message \cup returned'[i].str : IsStr(s)
                /\ Cardinality(returned'[i].message) <= 1
                /\ Cardinality(returned'[i].str) <= 1]_vars

C8_Witness ==
    /\ DOMAIN heap = Ids
    /\ \A i \in Ids : returned[i].message # {} /\ returned[i].str # {}
    /\ \E i \in Ids : heap[i].file_path = EmptyStr /\ heap[i].security_risk # None
    /\ \E i \in Ids : heap[i].thought = TwoLines

(* C9: a constructor call that passes file_path and otherwise only field
   names succeeds whatever the values are, and the instance holds file_path,
   thought and security_risk exactly as passed. *)
C9_NoValidation ==
    (lastInit.id # 0 /\ Passed("file_path") /\ DOMAIN lastInit.kwargs \subseteq Fields) =>
        /\ lastInit.raised = NoError
        /\ lastInit.id \in DOMAIN heap
        /\ \A f \in {"file_path", "thought", "security_risk"} \cap DOMAIN lastInit.kwargs :
              heap[lastInit.id][f] = lastInit.kwargs[f]

C9_Witness ==
    /\ LastInitOk
    /\ Passed("thought") /\ Passed("security_risk")
    /\ lastInit.kwargs.file_path = TraversalPath
    /\ lastInit.kwargs.thought = TwoLines
    /\ lastInit.kwargs.security_risk # None
    /\ \E j \in DOMAIN heap : heap[j].file_path = EmptyStr

(* C10: two instances with the same file_path return the same message, and
   two instances with the same file_path and thought return the same __str__
   text, whatever their security_risk and action are. *)
C10_OnlyPathAndThought ==
    \A i \in DOMAIN heap : \A j \in DOMAIN heap :
        /\ heap[i].file_path = heap[j].file_path =>
              Cardinality(returned[i].message \cup returned[j].message) <= 1
        /\ (heap[i].file_path = heap[j].file_path /\ heap[i].thought = heap[j].thought) =>
              Cardinality(returned[i].str \cup returned[j].str) <= 1

C10_Witness ==
    /\ DOMAIN heap = Ids
    /\ heap[1].file_path = heap[2].file_path
    /\ heap[1].thought = heap[2].thought
    /\ heap[1].thought # EmptyStr
    /\ heap[1].security_risk # heap[2].security_risk
    /\ heap[1].action # heap[2].action
    /\ \A i \in Ids : returned[i].message # {} /\ returned[i].str # {}

====
